---- MODULE Spec2Model ----
(***************************************************************************)
(* A model of dlfa/solvers/memory_network.py: MemoryNetworkSolver.         *)
(*                                                                         *)
(*  Spec       the solver's construction (__init__), its per-hop layer     *)
(*             caches and the graph construction of _build_model           *)
(*  SpecShape  the two shape functions (_get_merged_background_shape,      *)
(*             _get_weighted_average_shape) applied to bounded shapes      *)
(*  SpecDebug  the attention trace writer, debug()                         *)
(*  SpecQuery  can_train, can_test and _get_custom_objects                 *)
(***************************************************************************)
EXTENDS Integers, Sequences, FiniteSets, TLC

\* ---- bounds ----
\* largest configured num_memory_layers
MaxLayers == 2
\* _build_model runs on one solver
MaxBuilds == 2
\* direct _get_knowledge_selector/_get_memory_updater calls
MaxCalls == 2
\* largest entry of a shape tuple
MaxDim == 2
\* instances of a debug dataset
MaxInstances == 2
\* background sentences of one instance
MaxBackground == 3
\* length of one attention vector
MaxAttention == 3
\* largest epoch identifier
MaxEpoch == 1
\* debug() invocations
MaxDebugCalls == 2
\* distinct attention tensors the debug model can predict
MaxSeed == 1

VARIABLES
  \* -- the solver object and one _build_model frame --
  pc,                       \* position of the solver: __init__ line, idle, _build_model line
  kwargs,                   \* the keyword arguments of __init__
  attrs,                    \* the attributes __init__ has assigned so far
  knowledge_selector_layers,\* self.knowledge_selector_layers: layer_num -> layer
  memory_updater_layers,    \* self.memory_updater_layers: layer_num -> layer
  layers,                   \* every component object instantiated, in creation order
  graph,                    \* the tensors created by the running/last _build_model
  i,                        \* loop variable of _build_model
  current_memory,           \* local of _build_model (tensor id, 0 = unbound)
  attention_weights,        \* local of _build_model (tensor id, 0 = unbound)
  attended_knowledge,       \* local of _build_model (tensor id, 0 = unbound)
  returned,                 \* what the last getter call returned (layer id, 0 = none)
  first_returned,           \* history: family -> layer_num -> first layer returned
  builds,                   \* number of _build_model runs started
  calls,                    \* number of direct getter calls made
  \* -- the shape functions --
  input_shapes,             \* the argument handed to a shape function
  input_before,             \* history: the argument as it was before the call
  shape_fn,                 \* which shape function ran ("none" before the call)
  shape_out,                \* the tuple it returned
  \* -- debug() --
  dpc,                      \* position inside debug()
  num_memory_layers,        \* self.num_memory_layers of the debugged solver
  instances,                \* debug_dataset.instances
  padded_length,            \* knowledge length debug_inputs were padded to
  seed,                     \* selects what score()/predict() return
  epoch,                    \* argument of the running debug() call
  debug_output_file,        \* local of debug(): the file object
  files,                    \* the file system: name -> sequence of lines
  attention_outputs,        \* local of debug()
  scores,                   \* local of debug()
  n,                        \* index of the instance the zip loop is at
  attention_values,         \* local of debug(): per hop, the sliced values
  row,                      \* loop variable i of the per-sentence loop
  written,                  \* history: epoch -> the lines its latest invocation printed
  rows_emitted,             \* history: per instance, the sentence indices printed
  debug_calls,              \* number of debug() invocations started
  \* -- can_train, can_test, _get_custom_objects --
  backgrounds,              \* the six *_background attributes ("None" or a path)
  base_can_train,           \* what super().can_train() answers
  base_can_test,            \* what super().can_test() answers
  base_custom_objects,      \* what super()._get_custom_objects() returns
  query,                    \* which of the three methods ran ("none" before)
  answer,                   \* the bool can_train/can_test returned
  custom_objects            \* the dict _get_custom_objects returned

solver_vars == <<pc, kwargs, attrs, knowledge_selector_layers, memory_updater_layers,
                 layers, graph, i, current_memory, attention_weights,
                 attended_knowledge, returned, first_returned, builds, calls>>
shape_vars == <<input_shapes, input_before, shape_fn, shape_out>>
debug_vars == <<dpc, num_memory_layers, instances, padded_length, seed, epoch, debug_output_file,
                files, attention_outputs, scores, n, attention_values, row, written,
                rows_emitted, debug_calls>>
query_vars == <<backgrounds, base_can_train, base_can_test, base_custom_objects,
                query, answer, custom_objects>>
vars == <<solver_vars, shape_vars, debug_vars, query_vars>>

\* ---- component registries (layers/knowledge_selectors.py, memory_updaters.py,
\*      entailment_models.py) ----
selectors == {"dot_product", "parameterized"}
updaters == {"dense_concat"}
entailment_input_combiners == {"heuristic_matching"}
entailment_models == {"true_false_mlp", "question_answer_mlp"}

NoLayers == [h \in {} |-> 0]

\* dict[key] = value
Put(dict, key, value) == [k \in DOMAIN dict \cup {key} |-> IF k = key THEN value ELSE dict[k]]

\* ---------------------------------------------------------------------------
\* MemoryNetworkSolver.__init__ (lines 60-93)
\* ---------------------------------------------------------------------------
Keys(registry) == registry \cup {"nonexistent"}

KwargsSet == [knowledge_selector : Keys(selectors),
              memory_updater : Keys(updaters),
              entailment_input_combiner : Keys(entailment_input_combiners),
              entailment_model : Keys(entailment_models),
              hard_memory_selection : BOOLEAN,
              num_memory_layers : (-1)..MaxLayers]

\* A component object: the registry family it came from, its class and its name.
Layer(family, class, name) == [family |-> family, class |-> class, name |-> name]

SolverInit ==
  /\ pc = "new"
  /\ kwargs \in KwargsSet
  /\ attrs = {}
  /\ knowledge_selector_layers = NoLayers
  /\ memory_updater_layers = NoLayers
  /\ layers = <<>>
  /\ graph = <<>>
  /\ i = 0
  /\ current_memory = 0
  /\ attention_weights = 0
  /\ attended_knowledge = 0
  /\ returned = [family |-> "none", layer_num |-> 0, layer |-> 0]
  /\ first_returned = [selector |-> NoLayers, updater |-> NoLayers]
  /\ builds = 0
  /\ calls = 0

frame_vars == <<graph, i, current_memory, attention_weights, attended_knowledge>>
getter_vars == <<returned, first_returned>>

\* InitSelector keeping the key as given, the registry lookup left for later.
InitSelectorUnvalidated ==
  /\ pc = "new"
  /\ pc' = "init_updater"
  /\ attrs' = attrs \cup {"knowledge_selector", "hard_memory_selection",
                          "knowledge_selector_layers"}
  /\ knowledge_selector_layers' = NoLayers
  /\ UNCHANGED <<kwargs, memory_updater_layers, layers, frame_vars, getter_vars,
                 builds, calls>>
  /\ UNCHANGED <<shape_vars, debug_vars, query_vars>>

\* lines 61-71: selectors[kwargs['knowledge_selector']] raises KeyError on an
\* unknown key, before self.knowledge_selector_layers = {} is reached.
InitSelector ==
  /\ pc = "new"
  /\ IF kwargs.knowledge_selector \in selectors
       THEN /\ pc' = "init_updater"
            /\ attrs' = attrs \cup {"knowledge_selector", "hard_memory_selection",
                                    "knowledge_selector_layers"}
            /\ knowledge_selector_layers' = NoLayers
       ELSE /\ pc' = "init_failed"
            /\ UNCHANGED <<attrs, knowledge_selector_layers>>
  /\ UNCHANGED <<kwargs, memory_updater_layers, layers, frame_vars, getter_vars,
                 builds, calls>>
  /\ UNCHANGED <<shape_vars, debug_vars, query_vars>>

\* lines 72-73
InitUpdater ==
  /\ pc = "init_updater"
  /\ IF kwargs.memory_updater \in updaters
       THEN /\ pc' = "init_combiner"
            /\ attrs' = attrs \cup {"memory_updater", "memory_updater_layers"}
            /\ memory_updater_layers' = NoLayers
       ELSE /\ pc' = "init_failed"
            /\ UNCHANGED <<attrs, memory_updater_layers>>
  /\ UNCHANGED <<kwargs, knowledge_selector_layers, layers, frame_vars, getter_vars,
                 builds, calls>>
  /\ UNCHANGED <<shape_vars, debug_vars, query_vars>>

\* lines 74-75: the combiner is looked up and instantiated at once.
InitCombiner ==
  /\ pc = "init_combiner"
  /\ IF kwargs.entailment_input_combiner \in entailment_input_combiners
       THEN /\ pc' = "init_entailment"
            /\ attrs' = attrs \cup {"entailment_combiner"}
            /\ layers' = Append(layers, Layer("entailment_input_combiners",
                                              kwargs.entailment_input_combiner,
                                              "entailment_combiner"))
       ELSE /\ pc' = "init_failed"
            /\ UNCHANGED <<attrs, layers>>
  /\ UNCHANGED <<kwargs, knowledge_selector_layers, memory_updater_layers, frame_vars,
                 getter_vars, builds, calls>>
  /\ UNCHANGED <<shape_vars, debug_vars, query_vars>>

\* lines 76-84: the entailment model is looked up and instantiated, then
\* num_memory_layers is stored.
InitEntailment ==
  /\ pc = "init_entailment"
  /\ IF kwargs.entailment_model \in entailment_models
       THEN /\ pc' = "ready"
            /\ attrs' = attrs \cup {"entailment_model", "num_memory_layers"}
            /\ layers' = Append(layers, Layer("entailment_models",
                                              kwargs.entailment_model,
                                              "entailment_model"))
       ELSE /\ pc' = "init_failed"
            /\ UNCHANGED <<attrs, layers>>
  /\ UNCHANGED <<kwargs, knowledge_selector_layers, memory_updater_layers, frame_vars,
                 getter_vars, builds, calls>>
  /\ UNCHANGED <<shape_vars, debug_vars, query_vars>>

\* ---------------------------------------------------------------------------
\* The per-hop layer caches (lines 239-258)
\* ---------------------------------------------------------------------------
\* The state a getter leaves behind and the layer it returns.
GetterResult(cache, ls, ret) == [cache |-> cache, layers |-> ls, ret |-> ret]

\* _get_knowledge_selector without the membership test: a new layer per request.
get_knowledge_selector_uncached(cache, ls, layer_num) ==
  GetterResult(Put(cache, layer_num, Len(ls) + 1),
               Append(ls, Layer("selectors", kwargs.knowledge_selector,
                                "knowledge_selector_" \o ToString(layer_num))),
               Len(ls) + 1)

\* _get_knowledge_selector(layer_num), lines 244-248
get_knowledge_selector(cache, ls, layer_num) ==
  IF layer_num \notin DOMAIN cache
    THEN GetterResult(Put(cache, layer_num, Len(ls) + 1),
                      Append(ls, Layer("selectors", kwargs.knowledge_selector,
                                       "knowledge_selector_" \o ToString(layer_num))),
                      Len(ls) + 1)
    ELSE GetterResult(cache, ls, cache[layer_num])

\* _get_memory_updater(layer_num), lines 255-258
get_memory_updater(cache, ls, layer_num) ==
  IF layer_num \notin DOMAIN cache
    THEN GetterResult(Put(cache, layer_num, Len(ls) + 1),
                      Append(ls, Layer("updaters", kwargs.memory_updater,
                                       "memory_updater_" \o ToString(layer_num))),
                      Len(ls) + 1)
    ELSE GetterResult(cache, ls, cache[layer_num])

\* History of what each getter returned first for a layer number.
Remember(family, layer_num, layer) ==
  /\ returned' = [family |-> family, layer_num |-> layer_num, layer |-> layer]
  /\ first_returned' =
       IF layer_num \in DOMAIN first_returned[family]
         THEN first_returned
         ELSE [first_returned EXCEPT ![family] = Put(@, layer_num, layer)]

Idle == pc \in {"ready", "built", "build_failed"}

\* A caller (a subclass, a pretrainer) asks for the selector of a hop.
CallGetKnowledgeSelector ==
  /\ Idle
  /\ calls < MaxCalls
  /\ \E layer_num \in 0..MaxLayers :
       LET r == get_knowledge_selector(knowledge_selector_layers, layers, layer_num)
       IN /\ knowledge_selector_layers' = r.cache
          /\ layers' = r.layers
          /\ Remember("selector", layer_num, r.ret)
  /\ calls' = calls + 1
  /\ UNCHANGED <<pc, kwargs, attrs, memory_updater_layers, frame_vars, builds>>
  /\ UNCHANGED <<shape_vars, debug_vars, query_vars>>

CallGetMemoryUpdater ==
  /\ Idle
  /\ calls < MaxCalls
  /\ \E layer_num \in 0..MaxLayers :
       LET r == get_memory_updater(memory_updater_layers, layers, layer_num)
       IN /\ memory_updater_layers' = r.cache
          /\ layers' = r.layers
          /\ Remember("updater", layer_num, r.ret)
  /\ calls' = calls + 1
  /\ UNCHANGED <<pc, kwargs, attrs, knowledge_selector_layers, frame_vars, builds>>
  /\ UNCHANGED <<shape_vars, debug_vars, query_vars>>

\* ---------------------------------------------------------------------------
\* MemoryNetworkSolver._build_model (lines 280-372)
\* ---------------------------------------------------------------------------
\* A tensor of the graph: the operation that produced it, the tensors it was
\* computed from, the component applied (0 = none), its name and, for a custom
\* merge, the shape function handed over as output_shape.
Node(op, inputs, layer, name, output_shape) ==
  [op |-> op, inputs |-> inputs, layer |-> layer, name |-> name,
   output_shape |-> output_shape]

\* Tensors are numbered in creation order; lines 283-298 create these six.
question_input_layer == 1
question_embedding == 2
knowledge_input_layer == 3
knowledge_embedding == 4
encoded_question == 5
encoded_knowledge == 6

\* lines 283-306
BuildStart ==
  /\ Idle
  /\ builds < MaxBuilds
  /\ builds' = builds + 1
  /\ graph' = << Node("input", <<>>, 0, "sentence_input", "none"),
                 Node("embedding", <<question_input_layer>>, 0, "sentence_embedding", "none"),
                 Node("input", <<>>, 0, "background_input", "none"),
                 Node("embedding", <<knowledge_input_layer>>, 0, "background_embedding", "none"),
                 Node("sentence_encoder", <<question_embedding>>, 0, "sentence_encoder", "none"),
                 Node("TimeDistributed", <<knowledge_embedding>>, 0, "knowledge_encoder", "none") >>
  /\ current_memory' = encoded_question
  /\ attention_weights' = 0
  /\ attended_knowledge' = 0
  /\ i' = 0
  /\ pc' = IF 0 < kwargs.num_memory_layers THEN "merge" ELSE "finish"
  /\ UNCHANGED <<kwargs, attrs, knowledge_selector_layers, memory_updater_layers,
                 layers, getter_vars, calls>>
  /\ UNCHANGED <<shape_vars, debug_vars, query_vars>>

\* lines 315-325: stack current_memory on top of the knowledge, then Dropout.
HopMerge ==
  /\ pc = "merge"
  /\ graph' = graph \o
       << Node("merge", <<current_memory, encoded_knowledge>>, 0,
               "concat_question_with_background_" \o ToString(i), "merged_shape"),
          Node("Dropout", <<Len(graph) + 1>>, 0, "dropout", "none") >>
  /\ pc' = "select"
  /\ UNCHANGED <<kwargs, attrs, knowledge_selector_layers, memory_updater_layers,
                 layers, i, current_memory, attention_weights, attended_knowledge,
                 getter_vars, builds, calls>>
  /\ UNCHANGED <<shape_vars, debug_vars, query_vars>>

\* lines 326-327: the regularized merge is the last tensor created.
HopSelect ==
  /\ pc = "select"
  /\ LET r == get_knowledge_selector(knowledge_selector_layers, layers, i)
     IN /\ knowledge_selector_layers' = r.cache
        /\ layers' = r.layers
        /\ Remember("selector", i, r.ret)
        /\ graph' = Append(graph, Node("knowledge_selector", <<Len(graph)>>, r.ret,
                                       r.layers[r.ret].name, "none"))
  /\ attention_weights' = Len(graph) + 1
  /\ pc' = "average"
  /\ UNCHANGED <<kwargs, attrs, memory_updater_layers, i, current_memory,
                 attended_knowledge, builds, calls>>
  /\ UNCHANGED <<shape_vars, debug_vars, query_vars>>

\* HopAverage binding attended_knowledge in the first hop only.
HopAverageKeepsFirst ==
  /\ pc = "average"
  /\ graph' = Append(graph, Node("merge", <<encoded_knowledge, attention_weights>>, 0,
                                 "background_weighted_average_" \o ToString(i),
                                 "weighted_average_shape"))
  /\ attended_knowledge' = IF attended_knowledge = 0 THEN Len(graph) + 1
                           ELSE attended_knowledge
  /\ pc' = "update"
  /\ UNCHANGED <<kwargs, attrs, knowledge_selector_layers, memory_updater_layers,
                 layers, i, current_memory, attention_weights, getter_vars, builds,
                 calls>>
  /\ UNCHANGED <<shape_vars, debug_vars, query_vars>>

\* lines 330-338
HopAverage ==
  /\ pc = "average"
  /\ graph' = Append(graph, Node("merge", <<encoded_knowledge, attention_weights>>, 0,
                                 "background_weighted_average_" \o ToString(i),
                                 "weighted_average_shape"))
  /\ attended_knowledge' = Len(graph) + 1
  /\ pc' = "update"
  /\ UNCHANGED <<kwargs, attrs, knowledge_selector_layers, memory_updater_layers,
                 layers, i, current_memory, attention_weights, getter_vars, builds,
                 calls>>
  /\ UNCHANGED <<shape_vars, debug_vars, query_vars>>

\* HopUpdate with the loop running one pass too many (i <= N for i < N).
HopUpdateExtraHop ==
  /\ pc = "update"
  /\ LET r == get_memory_updater(memory_updater_layers, layers, i)
     IN /\ memory_updater_layers' = r.cache
        /\ layers' = r.layers
        /\ Remember("updater", i, r.ret)
        /\ graph' = graph \o
             << Node("concat", <<current_memory, attended_knowledge>>, 0,
                     "concat_current_memory_with_background_" \o ToString(i), "none"),
                Node("memory_updater", <<Len(graph) + 1>>, r.ret,
                     r.layers[r.ret].name, "none") >>
  /\ current_memory' = Len(graph) + 2
  /\ i' = i + 1
  /\ pc' = IF i + 1 <= kwargs.num_memory_layers THEN "merge" ELSE "finish"
  /\ UNCHANGED <<kwargs, attrs, knowledge_selector_layers, attention_weights,
                 attended_knowledge, builds, calls>>
  /\ UNCHANGED <<shape_vars, debug_vars, query_vars>>

\* HopUpdate with the updater's output dropped: current_memory is not reassigned.
HopUpdateKeepsMemory ==
  /\ pc = "update"
  /\ LET r == get_memory_updater(memory_updater_layers, layers, i)
     IN /\ memory_updater_layers' = r.cache
        /\ layers' = r.layers
        /\ Remember("updater", i, r.ret)
        /\ graph' = graph \o
             << Node("concat", <<current_memory, attended_knowledge>>, 0,
                     "concat_current_memory_with_background_" \o ToString(i), "none"),
                Node("memory_updater", <<Len(graph) + 1>>, r.ret,
                     r.layers[r.ret].name, "none") >>
  /\ current_memory' = current_memory
  /\ i' = i + 1
  /\ pc' = IF i + 1 < kwargs.num_memory_layers THEN "merge" ELSE "finish"
  /\ UNCHANGED <<kwargs, attrs, knowledge_selector_layers, attention_weights,
                 attended_knowledge, builds, calls>>
  /\ UNCHANGED <<shape_vars, debug_vars, query_vars>>

\* lines 345-350 and the loop test of line 307
HopUpdate ==
  /\ pc = "update"
  /\ LET r == get_memory_updater(memory_updater_layers, layers, i)
     IN /\ memory_updater_layers' = r.cache
        /\ layers' = r.layers
        /\ Remember("updater", i, r.ret)
        /\ graph' = graph \o
             << Node("concat", <<current_memory, attended_knowledge>>, 0,
                     "concat_current_memory_with_background_" \o ToString(i), "none"),
                Node("memory_updater", <<Len(graph) + 1>>, r.ret,
                     r.layers[r.ret].name, "none") >>
  /\ current_memory' = Len(graph) + 2
  /\ i' = i + 1
  /\ pc' = IF i + 1 < kwargs.num_memory_layers THEN "merge" ELSE "finish"
  /\ UNCHANGED <<kwargs, attrs, knowledge_selector_layers, attention_weights,
                 attended_knowledge, builds, calls>>
  /\ UNCHANGED <<shape_vars, debug_vars, query_vars>>

\* BuildFinish with attended_knowledge preset to the encoded knowledge, so that
\* a build without hops goes through.
BuildFinishWithDefault ==
  /\ pc = "finish"
  /\ pc' = "built"
  /\ graph' = graph \o
       << Node("concat", <<encoded_question, current_memory,
                           IF attended_knowledge = 0 THEN encoded_knowledge
                           ELSE attended_knowledge>>,
               0, "concat_entailment_inputs", "none"),
          Node("entailment_combiner", <<Len(graph) + 1>>, 1,
               "entailment_combiner", "none"),
          Node("classify", <<Len(graph) + 2>>, 2, "entailment_model", "none") >>
  /\ UNCHANGED <<kwargs, attrs, knowledge_selector_layers, memory_updater_layers,
                 layers, i, current_memory, attention_weights, attended_knowledge,
                 getter_vars, builds, calls>>
  /\ UNCHANGED <<shape_vars, debug_vars, query_vars>>

\* lines 360-372: attended_knowledge is unbound when the loop never ran, and
\* reading it raises.
BuildFinish ==
  /\ pc = "finish"
  /\ IF attended_knowledge = 0
       THEN /\ pc' = "build_failed"
            /\ UNCHANGED graph
       ELSE /\ pc' = "built"
            /\ graph' = graph \o
                 << Node("concat", <<encoded_question, current_memory, attended_knowledge>>,
                         0, "concat_entailment_inputs", "none"),
                    Node("entailment_combiner", <<Len(graph) + 1>>, 1,
                         "entailment_combiner", "none"),
                    Node("classify", <<Len(graph) + 2>>, 2, "entailment_model", "none") >>
  /\ UNCHANGED <<kwargs, attrs, knowledge_selector_layers, memory_updater_layers,
                 layers, i, current_memory, attention_weights, attended_knowledge,
                 getter_vars, builds, calls>>
  /\ UNCHANGED <<shape_vars, debug_vars, query_vars>>

\* ---------------------------------------------------------------------------
\* The shape functions (lines 198-237)
\* ---------------------------------------------------------------------------
\* _get_knowledge_axis, line 210: an axis of a Python tuple, counted from 0.
knowledge_axis == 1

\* What a shape function hands back, and its argument as the call left it.
ShapeResult(out, inputs) == [out |-> out, inputs |-> inputs]

\* list.pop(k) on a list held as a sequence: drops the entry at 0-based index k.
Pop(shape, k) == SubSeq(shape, 1, k) \o SubSeq(shape, k + 2, Len(shape))

\* merged_shape adding one at the axis in front of the knowledge axis.
merged_background_shape_wrong_axis(shapes) ==
  LET background_shape == [x \in DOMAIN shapes[2] |-> shapes[2][x]]
  IN ShapeResult([background_shape EXCEPT ![knowledge_axis] = @ + 1], shapes)

\* merged_shape of _get_merged_background_shape, lines 220-223: copies
\* input_shapes[1] into a fresh list and adds one at the knowledge axis.
merged_background_shape(shapes) ==
  LET background_shape == [x \in DOMAIN shapes[2] |-> shapes[2][x]]
  IN ShapeResult([background_shape EXCEPT ![knowledge_axis + 1] = @ + 1], shapes)

\* merged_shape of _get_weighted_average_shape, lines 233-236: copies
\* input_shapes[0] into a fresh list and pops the knowledge axis.
weighted_average_shape(shapes) ==
  LET shape == [x \in DOMAIN shapes[1] |-> shapes[1][x]]
  IN ShapeResult(Pop(shape, knowledge_axis), shapes)

Dims == 0..MaxDim
Shapes(rank) == [1..rank -> Dims]

ShapeInit ==
  /\ shape_fn = "none"
  /\ input_shapes \in (Shapes(2) \X Shapes(3)) \cup (Shapes(3) \X Shapes(2))
  /\ input_before = input_shapes
  /\ shape_out = <<>>

\* Keras calls output_shape with the list of the merge's input shapes.
ApplyMergedShape ==
  /\ shape_fn = "none"
  /\ Len(input_shapes[2]) > knowledge_axis
  /\ LET r == merged_background_shape(input_shapes)
     IN /\ shape_out' = r.out
        /\ input_shapes' = r.inputs
  /\ shape_fn' = "merged_background_shape"
  /\ UNCHANGED input_before
  /\ UNCHANGED <<solver_vars, debug_vars, query_vars>>

ApplyWeightedAverageShape ==
  /\ shape_fn = "none"
  /\ Len(input_shapes[1]) > knowledge_axis
  /\ LET r == weighted_average_shape(input_shapes)
     IN /\ shape_out' = r.out
        /\ input_shapes' = r.inputs
  /\ shape_fn' = "weighted_average_shape"
  /\ UNCHANGED input_before
  /\ UNCHANGED <<solver_vars, debug_vars, query_vars>>

\* ---------------------------------------------------------------------------
\* MemoryNetworkSolver.debug (lines 428-460)
\* ---------------------------------------------------------------------------
\* self.model_prefix, set by the base solver.
model_prefix == "mn"

Min(a, b) == IF a < b THEN a ELSE b

Digit(d) == SubSeq("0123456789", d + 1, d + 1)

\* Scores and attention weights are floats k/32, 0 <= k <= 32, held as k.
\* "%.4f" % (k/32): k/32 is exact in binary, so the conversion rounds the exact
\* value k * 312.5 ten-thousandths to the nearest, a tie going to the even one.
Format4f(k) ==
  LET q == (k * 3125) \div 10
      r == (k * 3125) % 10
      t == IF r < 5 THEN q
           ELSE IF r > 5 THEN q + 1
           ELSE IF q % 2 = 0 THEN q ELSE q + 1
  IN ToString(t \div 10000) \o "." \o Digit((t \div 1000) % 10) \o Digit((t \div 100) % 10)
       \o Digit((t \div 10) % 10) \o Digit(t % 10)

\* "%s" % label for a bool label
FormatLabel(label) == IF label THEN "True" ELSE "False"

\* "%s_debug_%d.txt" % (self.model_prefix, epoch), line 433
DebugFileName(prefix, e) == prefix \o "_debug_" \o ToString(e) \o ".txt"

\* open(name, "a"): an existing file keeps its content.
OpenForAppending(fs, name) == IF name \in DOMAIN fs THEN fs ELSE Put(fs, name, <<>>)

\* open(name, "w"), line 433: creates the file or truncates it.
OpenForWriting(fs, name) == Put(fs, name, <<>>)

\* print(line, file=f): the line goes to the end of the file.
WriteLine(fs, name, line) == [fs EXCEPT ![name] = Append(@, line)]

\* values[:m]: the first m entries instead of the last.
FirstSlice(values, m) == SubSeq(values, 1, Min(m, Len(values)))

\* values[-m:] on a Python sequence: the last m entries, all of them when m is
\* 0 (-0 is 0) or exceeds the length.
LastSlice(values, m) ==
  IF m = 0 \/ m >= Len(values)
    THEN values
    ELSE SubSeq(values, Len(values) - m + 1, Len(values))

\* " ".join(strings)
RECURSIVE Join(_, _)
Join(sep, strings) ==
  IF Len(strings) = 0 THEN ""
  ELSE IF Len(strings) = 1 THEN strings[1]
  ELSE strings[1] \o sep \o Join(sep, Tail(strings))

\* A TrueFalseInstance with background: text, background sentences, label.
Instance(a, m) ==
  [text |-> "question" \o ToString(a),
   background |-> [b \in 1..m |-> "fact" \o ToString(a) \o "." \o ToString(b)],
   label |-> (a % 2 = 1)]

Datasets ==
  UNION { { [a \in 1..len |-> Instance(a, m[a])] : m \in [1..len -> 0..MaxBackground] }
          : len \in 0..MaxInstances }

\* self.score(debug_inputs): one (p(false), p(true)) pair per instance.
Score(sd, count) ==
  [a \in 1..count |-> << 32 - ((9 * a + 5 * sd) % 33), (9 * a + 5 * sd) % 33 >>]

\* One hop's attention output: one vector of the padded length per instance.
Attention(sd, hop, count, length) ==
  [a \in 1..count |-> [p \in 1..length |-> (5 * sd + 7 * hop + 3 * p + 11 * a) % 33]]

\* self.debug_model.predict(debug_inputs): a list with one array per output
\* of the debug model, or the bare array when the model has a single output.
Predict(sd, hops, count, length) ==
  IF hops = 1
    THEN Attention(sd, 1, count, length)
    ELSE [hop \in 1..hops |-> Attention(sd, hop, count, length)]

DebugInit ==
  /\ dpc = "idle"
  /\ num_memory_layers \in 1..MaxLayers
  /\ instances \in Datasets
  /\ padded_length \in 0..MaxAttention
  /\ seed = 0
  /\ epoch = 0
  /\ debug_output_file = [name |-> "", closed |-> TRUE]
  /\ files = [nm \in {} |-> <<>>]
  /\ attention_outputs = <<>>
  /\ scores = <<>>
  /\ n = 0
  /\ attention_values = <<>>
  /\ row = 0
  /\ written = [nm \in {} |-> <<>>]
  /\ rows_emitted = <<>>
  /\ debug_calls = 0

\* What debug() is called on: it changes none of it.
debug_inputs == <<num_memory_layers, instances, padded_length>>

\* The frame of debug() is gone once the call has ended: its locals other than
\* the file object, which the model keeps to tell whether it was closed.
FrameDropped ==
  /\ attention_outputs' = <<>>
  /\ scores' = <<>>
  /\ attention_values' = <<>>
  /\ n' = 0
  /\ row' = 0

Running == dpc \in {"score", "predict", "header", "rows", "end", "close"}

\* line 433, for a call debug(debug_dataset, debug_inputs, e)
DebugOpen ==
  /\ ~Running
  /\ debug_calls < MaxDebugCalls
  /\ \E e \in 0..MaxEpoch, sd \in 0..MaxSeed :
       /\ epoch' = e
       /\ seed' = sd
       /\ debug_output_file' = [name |-> DebugFileName(model_prefix, e), closed |-> FALSE]
       /\ files' = OpenForWriting(files, DebugFileName(model_prefix, e))
       /\ written' = Put(written, e, <<>>)
  /\ debug_calls' = debug_calls + 1
  /\ rows_emitted' = <<>>
  /\ attention_outputs' = <<>>
  /\ scores' = <<>>
  /\ attention_values' = <<>>
  /\ n' = 0
  /\ row' = 0
  /\ dpc' = "score"
  /\ UNCHANGED debug_inputs
  /\ UNCHANGED <<solver_vars, shape_vars, query_vars>>

\* line 434
DebugScore ==
  /\ dpc = "score"
  /\ scores' = Score(seed, Len(instances))
  /\ dpc' = "predict"
  /\ UNCHANGED <<debug_inputs, seed, epoch, debug_output_file, files, attention_outputs,
                 n, attention_values, row, written, rows_emitted, debug_calls>>
  /\ UNCHANGED <<solver_vars, shape_vars, query_vars>>

\* lines 435-440: predict, wrap a single output into a list, start the zip loop,
\* which runs as long as every zipped sequence has an element left.
DebugPredict ==
  /\ dpc = "predict"
  /\ LET outputs == Predict(seed, num_memory_layers, Len(instances), padded_length)
         wrapped == IF num_memory_layers = 1 THEN <<outputs>> ELSE outputs
     IN /\ attention_outputs' = wrapped
        /\ dpc' = IF \A len \in {Len(instances), Len(scores)}
                                  \cup {Len(wrapped[hop]) : hop \in DOMAIN wrapped} : 1 <= len
                    THEN "header" ELSE "close"
  /\ n' = 1
  /\ UNCHANGED <<debug_inputs, seed, epoch, debug_output_file, files, scores,
                 attention_values, row, written, rows_emitted, debug_calls>>
  /\ UNCHANGED <<solver_vars, shape_vars, query_vars>>

\* lines 441-450 for the n-th zipped tuple
DebugHeader ==
  /\ dpc = "header"
  /\ LET instance == instances[n]
         positive_score == scores[n][2]
         header == << "Sentence: " \o instance.text,
                      "Label: " \o FormatLabel(instance.label),
                      "Assigned score: " \o Format4f(positive_score),
                      "Weights on background:" >>
     IN /\ attention_values' = [hop \in DOMAIN attention_outputs |->
                                  LastSlice(attention_outputs[hop][n],
                                            Len(instance.background))]
        /\ files' = [files EXCEPT ![debug_output_file.name] = @ \o header]
        /\ written' = [written EXCEPT ![epoch] = @ \o header]
  /\ rows_emitted' = Append(rows_emitted, <<>>)
  /\ row' = 0
  /\ dpc' = "rows"
  /\ UNCHANGED <<debug_inputs, seed, epoch, debug_output_file, attention_outputs,
                 scores, n, debug_calls>>
  /\ UNCHANGED <<solver_vars, shape_vars, query_vars>>

\* DebugRow without the test of lines 452-455.
DebugRowNoBreak ==
  /\ dpc = "rows"
  /\ LET background_info == instances[n].background
     IN IF row >= Len(background_info)
          THEN /\ dpc' = "end"
               /\ UNCHANGED <<files, written, rows_emitted, row, attention_outputs,
                              scores, n, attention_values>>
          ELSE IF \E hop \in DOMAIN attention_values : row >= Len(attention_values[hop])
            THEN /\ dpc' = "index_error"
                 /\ FrameDropped
                 /\ UNCHANGED <<files, written, rows_emitted>>
            ELSE LET all_hops_attention_i ==
                       [hop \in DOMAIN attention_values |->
                          Format4f(attention_values[hop][row + 1])]
                     line == "\t" \o Join(" ", all_hops_attention_i) \o "\t"
                               \o background_info[row + 1]
                 IN /\ files' = WriteLine(files, debug_output_file.name, line)
                    /\ written' = WriteLine(written, epoch, line)
                    /\ rows_emitted' = [rows_emitted EXCEPT ![n] = Append(@, row)]
                    /\ row' = row + 1
                    /\ dpc' = "rows"
                    /\ UNCHANGED <<attention_outputs, scores, n, attention_values>>
  /\ UNCHANGED <<debug_inputs, seed, epoch, debug_output_file, debug_calls>>
  /\ UNCHANGED <<solver_vars, shape_vars, query_vars>>

\* lines 451-458: one pass of the loop over enumerate(background_info); row is
\* the 0-based i.  Indexing a list past its end raises IndexError.
DebugRow ==
  /\ dpc = "rows"
  /\ LET background_info == instances[n].background
     IN IF row >= Len(background_info) \/ row >= Len(attention_values[1])
          THEN /\ dpc' = "end"
               /\ UNCHANGED <<files, written, rows_emitted, row, attention_outputs,
                              scores, n, attention_values>>
          ELSE IF \E hop \in DOMAIN attention_values : row >= Len(attention_values[hop])
            THEN /\ dpc' = "index_error"
                 /\ FrameDropped
                 /\ UNCHANGED <<files, written, rows_emitted>>
            ELSE LET all_hops_attention_i ==
                       [hop \in DOMAIN attention_values |->
                          Format4f(attention_values[hop][row + 1])]
                     line == "\t" \o Join(" ", all_hops_attention_i) \o "\t"
                               \o background_info[row + 1]
                 IN /\ files' = WriteLine(files, debug_output_file.name, line)
                    /\ written' = WriteLine(written, epoch, line)
                    /\ rows_emitted' = [rows_emitted EXCEPT ![n] = Append(@, row)]
                    /\ row' = row + 1
                    /\ dpc' = "rows"
                    /\ UNCHANGED <<attention_outputs, scores, n, attention_values>>
  /\ UNCHANGED <<debug_inputs, seed, epoch, debug_output_file, debug_calls>>
  /\ UNCHANGED <<solver_vars, shape_vars, query_vars>>

\* DebugEnd without the print of line 459.
DebugEndNoBlank ==
  /\ dpc = "end"
  /\ n' = n + 1
  /\ dpc' = IF \A len \in {Len(instances), Len(scores)}
                   \cup {Len(attention_outputs[hop]) : hop \in DOMAIN attention_outputs} :
                 n + 1 <= len
              THEN "header" ELSE "close"
  /\ UNCHANGED <<debug_inputs, seed, epoch, debug_output_file, attention_outputs,
                 scores, attention_values, row, rows_emitted, debug_calls, files, written>>
  /\ UNCHANGED <<solver_vars, shape_vars, query_vars>>

\* line 459, then the next tuple of the zip
DebugEnd ==
  /\ dpc = "end"
  /\ files' = WriteLine(files, debug_output_file.name, "")
  /\ written' = WriteLine(written, epoch, "")
  /\ n' = n + 1
  /\ dpc' = IF \A len \in {Len(instances), Len(scores)}
                   \cup {Len(attention_outputs[hop]) : hop \in DOMAIN attention_outputs} :
                 n + 1 <= len
              THEN "header" ELSE "close"
  /\ UNCHANGED <<debug_inputs, seed, epoch, debug_output_file, attention_outputs,
                 scores, attention_values, row, rows_emitted, debug_calls>>
  /\ UNCHANGED <<solver_vars, shape_vars, query_vars>>

\* line 460
DebugClose ==
  /\ dpc = "close"
  /\ debug_output_file' = [debug_output_file EXCEPT !.closed = TRUE]
  /\ dpc' = "returned"
  /\ FrameDropped
  /\ UNCHANGED <<debug_inputs, seed, epoch, files, written, rows_emitted, debug_calls>>
  /\ UNCHANGED <<solver_vars, shape_vars, query_vars>>

\* score(), predict() or a print raises (lines 434, 435, 447-459): the error
\* leaves debug() at once; nothing between line 433 and line 460 catches it.
DebugRaise ==
  /\ dpc \in {"score", "predict", "header", "rows", "end"}
  /\ dpc' = "raised"
  /\ FrameDropped
  /\ UNCHANGED <<debug_inputs, seed, epoch, debug_output_file, files, written,
                 rows_emitted, debug_calls>>
  /\ UNCHANGED <<solver_vars, shape_vars, query_vars>>

\* ---------------------------------------------------------------------------
\* can_train, can_test (lines 143-154) and _get_custom_objects (lines 160-166)
\* ---------------------------------------------------------------------------
\* A *_background argument: None, or the path of a background file.
BackgroundValues == {"None", "background.tsv"}

BackgroundsSet == [train_background : BackgroundValues,
                   positive_train_background : BackgroundValues,
                   negative_train_background : BackgroundValues,
                   validation_background : BackgroundValues,
                   test_background : BackgroundValues,
                   debug_background : BackgroundValues]

\* The class behind each registry key.
selector_classes == [key \in selectors |->
                       IF key = "dot_product" THEN "DotProductKnowledgeSelector"
                       ELSE "ParameterizedKnowledgeSelector"]
updater_classes == [key \in updaters |-> "DenseConcatMemoryUpdater"]

\* A custom-object table maps a class name to the class; a class is held as
\* its name.
Table(classes) == [name \in classes |-> name]

\* The classes the base solver's table may hold.
BaseClasses == {"BOWEncoder", "TreeCompositionLSTM"}
                 \cup {updater_classes[key] : key \in updaters}

QueryInit ==
  /\ backgrounds \in BackgroundsSet
  /\ base_can_train \in BOOLEAN
  /\ base_can_test \in BOOLEAN
  /\ base_custom_objects \in {Table(classes) : classes \in SUBSET BaseClasses}
  /\ query = "none"
  /\ answer = FALSE
  /\ custom_objects = Table({})

\* can_train with "or" between the positive and the negative background.
can_train_either(b, base) ==
  LET has_train_background == (b.train_background # "None") \/
                                (b.positive_train_background # "None" \/
                                 b.negative_train_background # "None")
      has_validation_background == b.validation_background # "None"
      has_background == has_train_background /\ has_validation_background
  IN has_background /\ base

\* can_train, lines 145-150
can_train(b, base) ==
  LET has_train_background == (b.train_background # "None") \/
                                (b.positive_train_background # "None" /\
                                 b.negative_train_background # "None")
      has_validation_background == b.validation_background # "None"
      has_background == has_train_background /\ has_validation_background
  IN has_background /\ base

\* can_test, line 154
can_test(b, base) == b.test_background # "None" /\ base

\* _get_custom_objects, lines 163-166
get_custom_objects(base) ==
  Put(Put(base, "DotProductKnowledgeSelector", "DotProductKnowledgeSelector"),
      "ParameterizedKnowledgeSelector", "ParameterizedKnowledgeSelector")

CanTrain ==
  /\ query = "none"
  /\ query' = "can_train"
  /\ answer' = can_train(backgrounds, base_can_train)
  /\ UNCHANGED <<backgrounds, base_can_train, base_can_test, base_custom_objects,
                 custom_objects>>
  /\ UNCHANGED <<solver_vars, shape_vars, debug_vars>>

CanTest ==
  /\ query = "none"
  /\ query' = "can_test"
  /\ answer' = can_test(backgrounds, base_can_test)
  /\ UNCHANGED <<backgrounds, base_can_train, base_can_test, base_custom_objects,
                 custom_objects>>
  /\ UNCHANGED <<solver_vars, shape_vars, debug_vars>>

GetCustomObjects ==
  /\ query = "none"
  /\ query' = "_get_custom_objects"
  /\ custom_objects' = get_custom_objects(base_custom_objects)
  /\ UNCHANGED <<backgrounds, base_can_train, base_can_test, base_custom_objects,
                 answer>>
  /\ UNCHANGED <<solver_vars, shape_vars, debug_vars>>

\* ---------------------------------------------------------------------------
\* Specifications
\* ---------------------------------------------------------------------------
\* The parts of the state a specification does not exercise stay as they are.
ParkedSolver ==
  /\ SolverInit
  /\ kwargs = [knowledge_selector |-> "parameterized", memory_updater |-> "dense_concat",
               entailment_input_combiner |-> "heuristic_matching",
               entailment_model |-> "true_false_mlp", hard_memory_selection |-> FALSE,
               num_memory_layers |-> 1]

ParkedShape ==
  /\ ShapeInit
  /\ input_shapes = << <<0, 0>>, <<0, 0, 0>> >>

ParkedDebug ==
  /\ DebugInit
  /\ num_memory_layers = 1
  /\ instances = <<>>
  /\ padded_length = 0

ParkedQuery ==
  /\ QueryInit
  /\ backgrounds = [name \in DOMAIN backgrounds |-> "None"]
  /\ base_can_train = FALSE
  /\ base_can_test = FALSE
  /\ base_custom_objects = Table({})

Init == SolverInit /\ ParkedShape /\ ParkedDebug /\ ParkedQuery

Next ==
  \/ InitSelector
  \/ InitUpdater
  \/ InitCombiner
  \/ InitEntailment
  \/ CallGetKnowledgeSelector
  \/ CallGetMemoryUpdater
  \/ BuildStart
  \/ HopMerge
  \/ HopSelect
  \/ HopAverage
  \/ HopUpdate
  \/ BuildFinish

Spec == Init /\ [][Next]_vars

InitShape == ParkedSolver /\ ShapeInit /\ ParkedDebug /\ ParkedQuery

NextShape ==
  \/ ApplyMergedShape
  \/ ApplyWeightedAverageShape

SpecShape == InitShape /\ [][NextShape]_vars

InitDebug == ParkedSolver /\ ParkedShape /\ DebugInit /\ ParkedQuery

NextDebug ==
  \/ DebugOpen
  \/ DebugScore
  \/ DebugPredict
  \/ DebugHeader
  \/ DebugRow
  \/ DebugEnd
  \/ DebugClose
  \/ DebugRaise

SpecDebug == InitDebug /\ [][NextDebug]_vars

InitQuery == ParkedSolver /\ ParkedShape /\ ParkedDebug /\ QueryInit

NextQuery ==
  \/ CanTrain
  \/ CanTest
  \/ GetCustomObjects

SpecQuery == InitQuery /\ [][NextQuery]_vars

\* ---------------------------------------------------------------------------
\* Properties of _build_model and the layer caches (checked under Spec)
\* ---------------------------------------------------------------------------
TensorsOf(op) == {t \in DOMAIN graph : graph[t].op = op}
Named(name) == {t \in DOMAIN graph : graph[t].name = name}
Tensor(name) == CHOOSE t \in Named(name) : TRUE
Range(f) == {f[x] : x \in DOMAIN f}
Injective(f) == \A x, y \in DOMAIN f : x # y => f[x] # f[y]

\* C1: a finished _build_model with num_memory_layers = N >= 1 has applied
\* the knowledge selector exactly N times and the memory updater exactly N
\* times, once per hop index 0..N-1, giving N attention tensors that come from
\* N different selector instances.
C1_OneSelectorAndUpdaterPerHop ==
  pc = "built" =>
    LET N == kwargs.num_memory_layers
        attention == TensorsOf("knowledge_selector")
        memories == TensorsOf("memory_updater")
    IN /\ N >= 1
       /\ i = N
       /\ Cardinality(attention) = N
       /\ Cardinality(memories) = N
       /\ \A h \in 0..(N - 1) :
            /\ Cardinality({t \in attention : graph[t].layer = knowledge_selector_layers[h]}) = 1
            /\ Cardinality({t \in memories : graph[t].layer = memory_updater_layers[h]}) = 1
       /\ \A t, u \in attention : t # u => graph[t].layer # graph[u].layer

C1_Witness == pc = "built" /\ kwargs.num_memory_layers = 2

\* The memory hop k reads: the encoded question for hop 0, else the output of
\* the updater of hop k - 1.
MemoryBefore(k) ==
  IF k = 0 THEN encoded_question ELSE Tensor("memory_updater_" \o ToString(k - 1))

\* C2: hops depend on one another in sequence: the merge in front of hop k's
\* selector and the input of hop k's updater read the encoded question when
\* k = 0 and the output of hop k-1's updater otherwise, and within a hop the
\* selector output is created before the weighted average, which is created
\* before the updater output that consumes it.
C2_SequentialHops ==
  \A k \in 0..(MaxLayers + 1) :
    LET merged == "concat_question_with_background_" \o ToString(k)
        selected == "knowledge_selector_" \o ToString(k)
        averaged == "background_weighted_average_" \o ToString(k)
        concat == "concat_current_memory_with_background_" \o ToString(k)
        updated == "memory_updater_" \o ToString(k)
    IN /\ \A name \in {merged, selected, averaged, concat, updated} :
            Cardinality(Named(name)) <= 1
       /\ Named(merged) # {} =>
            /\ k >= 1 => Named("memory_updater_" \o ToString(k - 1)) # {}
            /\ graph[Tensor(merged)].inputs = <<MemoryBefore(k), encoded_knowledge>>
       /\ Named(selected) # {} =>
            /\ graph[Tensor(selected)].inputs = <<Tensor(merged) + 1>>
            /\ graph[Tensor(merged) + 1].inputs = <<Tensor(merged)>>
       /\ Named(averaged) # {} =>
            /\ graph[Tensor(averaged)].inputs = <<encoded_knowledge, Tensor(selected)>>
            /\ Tensor(selected) < Tensor(averaged)
       /\ Named(concat) # {} =>
            graph[Tensor(concat)].inputs = <<MemoryBefore(k), Tensor(averaged)>>
       /\ Named(updated) # {} =>
            /\ graph[Tensor(updated)].inputs = <<Tensor(concat)>>
            /\ Tensor(averaged) < Tensor(updated)

C2_Witness ==
  /\ pc = "built"
  /\ Named("concat_question_with_background_1") # {}
  /\ graph[Tensor("concat_question_with_background_1")].inputs[1] = Tensor("memory_updater_0")

\* C3: each cache holds, for every hop index ever requested, the instance
\* the first request returned, and the latest request returned that instance;
\* different hop indices hold different instances, no instance sits in both
\* caches, and no component name was instantiated twice.
C3_CacheIdentity ==
  /\ \A h \in DOMAIN first_returned.selector :
       /\ h \in DOMAIN knowledge_selector_layers
       /\ knowledge_selector_layers[h] = first_returned.selector[h]
  /\ \A h \in DOMAIN first_returned.updater :
       /\ h \in DOMAIN memory_updater_layers
       /\ memory_updater_layers[h] = first_returned.updater[h]
  /\ returned.family # "none" =>
       returned.layer = first_returned[returned.family][returned.layer_num]
  /\ Injective(knowledge_selector_layers)
  /\ Injective(memory_updater_layers)
  /\ Range(knowledge_selector_layers) \cap Range(memory_updater_layers) = {}
  /\ \A a, b \in DOMAIN layers : a # b => layers[a].name # layers[b].name

C3_Witness ==
  /\ pc = "built"
  /\ builds = 2
  /\ calls >= 1
  /\ Cardinality(DOMAIN knowledge_selector_layers) >= 2
  /\ Cardinality(DOMAIN memory_updater_layers) >= 2

\* C5: with an unknown registry key among the four component arguments the
\* solver never gets out of __init__: it never becomes ready, no _build_model
\* starts, no tensor exists, no selector or updater was instantiated and both
\* per-hop caches hold nothing.
UnknownKey ==
  \/ kwargs.knowledge_selector \notin selectors
  \/ kwargs.memory_updater \notin updaters
  \/ kwargs.entailment_input_combiner \notin entailment_input_combiners
  \/ kwargs.entailment_model \notin entailment_models

C5_UnknownKeyFailsBeforeBuild ==
  UnknownKey =>
    /\ pc \in {"new", "init_updater", "init_combiner", "init_entailment", "init_failed"}
    /\ builds = 0
    /\ graph = <<>>
    /\ DOMAIN knowledge_selector_layers = {}
    /\ DOMAIN memory_updater_layers = {}
    /\ \A l \in DOMAIN layers : layers[l].family \notin {"selectors", "updaters"}

C5_Witness ==
  /\ pc = "init_failed"
  /\ kwargs.entailment_model \notin entailment_models
  /\ "memory_updater_layers" \in attrs

\* ---------------------------------------------------------------------------
\* Properties of the shape functions (checked under SpecShape)
\* ---------------------------------------------------------------------------
\* C4: on a background shape (B, K, D) the merged-background shape function
\* returns (B, K+1, D) whatever the question shape is, the weighted-average
\* shape function returns (B, D) for a first input (B, K, D), and both leave
\* the shapes they were given as they were.
C4_ShapeFunctions ==
  /\ (shape_fn = "merged_background_shape" /\ Len(input_before[2]) = 3) =>
       /\ shape_out = <<input_before[2][1], input_before[2][2] + 1, input_before[2][3]>>
       /\ input_shapes = input_before
  /\ (shape_fn = "weighted_average_shape" /\ Len(input_before[1]) = 3) =>
       /\ shape_out = <<input_before[1][1], input_before[1][3]>>
       /\ input_shapes = input_before

C4_Witness ==
  /\ shape_fn = "merged_background_shape"
  /\ input_before = << <<1, 2>>, <<1, 2, 0>> >>
  /\ shape_out = <<1, 3, 0>>

\* ---------------------------------------------------------------------------
\* Properties of debug() (checked under SpecDebug)
\* ---------------------------------------------------------------------------
Ended == dpc \in {"returned", "raised", "index_error"}

EndsWith(str, suffix) ==
  /\ Len(str) >= Len(suffix)
  /\ SubSeq(str, Len(str) - Len(suffix) + 1, Len(str)) = suffix

\* The file the running invocation writes.
Trace == files[debug_output_file.name]

\* The attention entry the claim pairs with the r-th sentence (r from 1) of an
\* instance with m sentences, in a vector of the given length.
AlignedIndex(length, m, r) == IF length >= m THEN length - m + r ELSE r

\* The per-sentence line for the r-th sentence of instance a, the values of
\* the hops separated by sep.
RowLine(a, r, sep) ==
  LET m == Len(instances[a].background)
  IN "\t" \o Join(sep, [hop \in DOMAIN attention_outputs |->
                          Format4f(attention_outputs[hop][a][
                            AlignedIndex(Len(attention_outputs[hop][a]), m, r)])])
       \o "\t" \o instances[a].background[r]

\* The record of instance a.
Record(a, sep) ==
  LET count == Min(Len(instances[a].background), Len(attention_outputs[1][a]))
  IN << "Sentence: " \o instances[a].text,
        "Label: " \o FormatLabel(instances[a].label),
        "Assigned score: " \o Format4f(scores[a][2]),
        "Weights on background:" >>
       \o [r \in 1..count |-> RowLine(a, r, sep)]
       \o << "" >>

RECURSIVE Records(_, _)
Records(a, sep) == IF a = 0 THEN <<>> ELSE Records(a - 1, sep) \o Record(a, sep)

\* C6 (as claimed): whenever debug() has ended, by returning or by
\* propagating an error, the file it opened is closed.
C6_HandleReleasedOnEveryExit == Ended => debug_output_file.closed

\* C7: no pass of the per-sentence loop raises, and when the rows of an
\* instance are complete, exactly min(sentences, attention values per hop) rows
\* were printed after the "Weights on background:" line, for the sentences in
\* their original order from the first one on.
C7_TraceTruncation ==
  /\ dpc # "index_error"
  /\ dpc = "end" =>
       LET background_info == instances[n].background
           count == Min(Len(background_info), Len(attention_outputs[1][n]))
       IN /\ rows_emitted[n] = [r \in 1..count |-> r - 1]
          /\ Len(Trace) >= count + 1
          /\ Trace[Len(Trace) - count] = "Weights on background:"
          /\ \A r \in 1..count :
               EndsWith(Trace[Len(Trace) - count + r], "\t" \o background_info[r])

C7_Witness ==
  /\ dpc = "end"
  /\ Len(instances[n].background) = 3
  /\ padded_length = 2
  /\ Len(rows_emitted[n]) = 2

\* C8 (as claimed): the finished trace is, per instance and in order, the
\* lines Sentence, Label, Assigned score, Weights on background, one line per
\* emitted sentence and a blank line, the N values of a sentence line being
\* separated from one another by tabs.
C8_TabSeparatedRecords == dpc = "close" => Trace = Records(Len(instances), "\t")

\* C8 (amended): the same record layout, each sentence line being a tab, the N
\* values of the hops in hop order separated from one another by single spaces,
\* a tab and the sentence text.
C8_SpaceSeparatedRecords == dpc = "close" => Trace = Records(Len(instances), " ")

C8_Witness ==
  /\ dpc = "close"
  /\ num_memory_layers = 2
  /\ Len(instances) = 2
  /\ Len(rows_emitted[1]) >= 1
  /\ Len(rows_emitted[2]) >= 2

\* C9: every sentence line printed so far for the current instance shows, for
\* each hop in hop order, the entry of that hop's attention vector at the
\* position of the sentence counted within the last len(background) entries:
\* index (vector length - len(background) + i) when the vector is at least
\* that long.
C9_TraceAlignment ==
  dpc = "rows" =>
    \A r \in 1..row : Trace[Len(Trace) - row + r] = RowLine(n, r, " ")

C9_Witness ==
  /\ dpc = "rows"
  /\ row = 2
  /\ Len(instances[n].background) = 2
  /\ padded_length = 3
  /\ num_memory_layers = 2

\* C10: the file system holds exactly one file per epoch debug() was invoked
\* with, and each holds exactly what the latest invocation with that epoch
\* printed.
C10_OverwrittenPerEpoch ==
  /\ DOMAIN files = {DebugFileName(model_prefix, e) : e \in DOMAIN written}
  /\ \A e \in DOMAIN written : files[DebugFileName(model_prefix, e)] = written[e]

C10_Witness ==
  /\ dpc = "returned"
  /\ debug_calls = 2
  /\ DOMAIN written = {0}
  /\ Len(written[0]) > 4

\* ---------------------------------------------------------------------------
\* Properties of the end of _build_model (checked under Spec)
\* ---------------------------------------------------------------------------
\* C11: in a finished build with N hops the entailment input is the
\* concatenation of the encoded question, the output of the updater of hop
\* N-1 and the weighted average of hop N-1, in this order; no weighted average
\* of an earlier hop is among its inputs.
C11_EntailmentInput ==
  pc = "built" =>
    LET N == kwargs.num_memory_layers
        entailment_input == graph[Tensor("concat_entailment_inputs")]
    IN /\ Cardinality(Named("concat_entailment_inputs")) = 1
       /\ entailment_input.op = "concat"
       /\ entailment_input.inputs =
            << encoded_question,
               Tensor("memory_updater_" \o ToString(N - 1)),
               Tensor("background_weighted_average_" \o ToString(N - 1)) >>
       /\ \A k \in 0..(N - 2) :
            \A t \in Named("background_weighted_average_" \o ToString(k)) :
              \A p \in DOMAIN entailment_input.inputs : entailment_input.inputs[p] # t

C11_Witness ==
  /\ pc = "built"
  /\ kwargs.num_memory_layers = 2
  /\ Named("background_weighted_average_0") # {}
  /\ graph[Tensor("concat_entailment_inputs")].inputs[3]
       = Tensor("background_weighted_average_1")

\* The tensors a hop creates.
HopTensors ==
  {t \in DOMAIN graph : graph[t].op \in {"merge", "Dropout", "knowledge_selector",
                                          "memory_updater"}}

\* C14: with num_memory_layers < 1 no build ever finishes: _build_model goes
\* from its preamble straight to the entailment input, where it fails; it
\* creates no tensor of a hop, and the per-hop caches stay empty unless a
\* caller asks the getters directly.
C14_NoGraphWithoutHops ==
  kwargs.num_memory_layers < 1 =>
    /\ pc \notin {"built", "merge", "select", "average", "update"}
    /\ HopTensors = {}
    /\ Named("concat_entailment_inputs") = {}
    /\ (builds >= 1 /\ pc # "finish") => pc = "build_failed"
    /\ calls = 0 => (DOMAIN knowledge_selector_layers = {} /\ DOMAIN memory_updater_layers = {})

C14_Witness ==
  /\ kwargs.num_memory_layers = 0
  /\ pc = "build_failed"
  /\ builds >= 1
  /\ DOMAIN knowledge_selector_layers = {}
  /\ DOMAIN memory_updater_layers = {}

\* ---------------------------------------------------------------------------
\* Properties of can_train, can_test and _get_custom_objects (checked under
\* SpecQuery)
\* ---------------------------------------------------------------------------
IsSet(name) == backgrounds[name] # "None"

\* C12: can_train() answers true only with a validation background, a train
\* background or both a positive and a negative one, and a base solver that
\* can train; can_test() answers true only with a test background and a base
\* solver that can test.
C12_GatedOnBackground ==
  /\ (query = "can_train" /\ answer) =>
       /\ IsSet("validation_background")
       /\ \/ IsSet("train_background")
          \/ IsSet("positive_train_background") /\ IsSet("negative_train_background")
       /\ base_can_train
  /\ (query = "can_test" /\ answer) =>
       /\ IsSet("test_background")
       /\ base_can_test

C12_Witness ==
  /\ query = "can_train"
  /\ answer
  /\ ~IsSet("train_background")
  /\ IsSet("positive_train_background")
  /\ IsSet("negative_train_background")

\* The table resolves a class when the class is entered under its own name.
Resolves(table, class) == class \in DOMAIN table /\ table[class] = class

\* C13 (as claimed): the table _get_custom_objects returns keeps every entry
\* of the base solver's table and resolves the class of every key of the
\* selectors registry and of every key of the updaters registry.
C13_ReloadableComponents ==
  query = "_get_custom_objects" =>
    /\ \A name \in DOMAIN base_custom_objects :
         name \in DOMAIN custom_objects /\ custom_objects[name] = base_custom_objects[name]
    /\ \A key \in selectors : Resolves(custom_objects, selector_classes[key])
    /\ \A key \in updaters : Resolves(custom_objects, updater_classes[key])

====
